---- MODULE Spec2Model ----
(***************************************************************************)
(* Model of the pomodoro clock extension: the PomodoroTimer state machine  *)
(* (src/src/notification.ts, second half), the DataManager store           *)
(* (src/src/data.ts) and the activation code (src/unnamed/part_000).       *)
(*                                                                         *)
(* Time is Date.now() in milliseconds.  Settings are JavaScript numbers;   *)
(* the model writes a duration of m minutes as the integer m * Unit, so    *)
(* that a setting of 1/Unit minute is 1 and the default of 25 minutes is   *)
(* 25 * Unit.  Every duration the model draws is a multiple of 1/Unit      *)
(* minute, for which workDuration * 60 is a whole number of seconds.       *)
(***************************************************************************)
EXTENDS Integers, Sequences, FiniteSets, TLC

VARIABLES
    alive,                  \* the extension host process is running
    state,                  \* PomodoroTimer.state
    remainingTime,          \* PomodoroTimer.remainingTime (seconds)
    totalDuration,          \* PomodoroTimer.totalDuration (seconds)
    intervalId,             \* PomodoroTimer.intervalId is not null
    activeTimers,           \* the setInterval countdowns that are scheduled
    completedPomodoros,     \* PomodoroTimer.completedPomodoros
    consecutivePomodoros,   \* PomodoroTimer.consecutivePomodoros
    startTime,              \* PomodoroTimer.startTime (ms or Null)
    pauseTime,              \* PomodoroTimer.pauseTime (ms or Null)
    previousState,          \* PomodoroTimer.previousState
    timerState,             \* globalState['timerState']: <<>> or <<snapshot>>
    pomodoroRecords,        \* globalState['pomodoroRecords']
    config,                 \* workspace configuration 'pomodoroClock' (raw)
    now,                    \* Date.now()
    notified,               \* NotificationManager calls made by the last step
    lastOp,                 \* the operation the last step ran
    run,                    \* bookkeeping: the work interval started last
    restored,               \* bookkeeping: what the last step's restoreState() read
    afterLongBreak,         \* bookkeeping: a long break began since the last completion
    attended,               \* the user can still invoke commands
    report,                 \* what the last DataManager query returned
    stoppedIdle             \* bookkeeping: the process is down and stopped in Idle

vars == <<alive, state, remainingTime, totalDuration, intervalId, activeTimers,
          completedPomodoros, consecutivePomodoros, startTime, pauseTime,
          previousState, timerState, pomodoroRecords, config, now,
          notified, lastOp, run, restored, afterLongBreak, attended,
          report, stoppedIdle>>

----------------------------------------------------------------------------
(* Bounds *)

\* the clock stops at MaxSteps steps of StepMs
MaxSteps == 8
\* the log holds at most MaxRecords records
MaxRecords == 1
\* a session without restart: its clock stops at MaxSessionSteps steps of
\* StepMs and its log holds at most MaxSessionRecords records
MaxSessionSteps == 13
MaxSessionRecords == 5
\* the clock of an unattended session runs MaxTailSteps steps of StepMs longer
MaxTailSteps == 8
\* the DataManager on its own stores at most MaxDataRecords records
MaxDataRecords == 2

(* Representation *)

\* one minute, in the units settings are written in
Unit == 60
\* null of `number | null`
Null == -1
\* milliseconds between two countdown callbacks (setInterval(..., 1000))
TickMs == 1000
\* granularity of the clock outside countdown callbacks
StepMs == 500

MaxNow == MaxSteps * StepMs
MaxSessionNow == MaxSessionSteps * StepMs

IDLE == "idle"
WORKING == "working"
SHORT_BREAK == "shortBreak"
LONG_BREAK == "longBreak"
PAUSED == "paused"
TimerState == {IDLE, WORKING, SHORT_BREAK, LONG_BREAK, PAUSED}
Running == {WORKING, SHORT_BREAK, LONG_BREAK}

\* the settings the user may have written
Configs ==
    {[workDuration |-> 1, shortBreakDuration |-> 1,
      longBreakDuration |-> 2, longBreakInterval |-> 1],
     [workDuration |-> 2, shortBreakDuration |-> 1,
      longBreakDuration |-> 2, longBreakInterval |-> 2]}

\* a || b of JavaScript, on numbers
OrDefault(a, b) == IF a # 0 THEN a ELSE b

getConfig(c) ==
    [workDuration       |-> OrDefault(c.workDuration, 25 * Unit),
     shortBreakDuration |-> OrDefault(c.shortBreakDuration, 5 * Unit),
     longBreakDuration  |-> OrDefault(c.longBreakDuration, 15 * Unit),
     longBreakInterval  |-> OrDefault(c.longBreakInterval, 4)]

\* minutes * 60, in seconds
Times60(m) == (m * 60) \div Unit

Max(a, b) == IF a >= b THEN a ELSE b

----------------------------------------------------------------------------
(* The methods, as functions of the object and the store they act on.      *)
(* w holds the fields of the timer, the two stored values, the clock       *)
(* reading and the settings the handler sees, and the notifications the    *)
(* handler has sent so far.                                                *)

Self(t, op) ==
    [state |-> state, remainingTime |-> remainingTime,
     totalDuration |-> totalDuration, intervalId |-> intervalId,
     activeTimers |-> activeTimers,
     completedPomodoros |-> completedPomodoros,
     consecutivePomodoros |-> consecutivePomodoros,
     startTime |-> startTime, pauseTime |-> pauseTime,
     previousState |-> previousState,
     timerState |-> timerState, pomodoroRecords |-> pomodoroRecords,
     now |-> t, config |-> config, notified |-> <<>>, op |-> op]

\* new PomodoroTimer(...) in a new process: the field initialisers, and no
\* countdown of the process before is left
Constructed(w) ==
    [w EXCEPT !.state = IDLE, !.remainingTime = 0, !.totalDuration = 0,
              !.intervalId = FALSE, !.activeTimers = 0,
              !.completedPomodoros = 0,
              !.consecutivePomodoros = 0, !.startTime = Null,
              !.pauseTime = Null, !.previousState = IDLE]

saveTimerState(w, stateData) == [w EXCEPT !.timerState = <<stateData>>]

getTimerState(w) == w.timerState
\* recordPomodoro() that stores the new record alone
recordPomodoro_replace(w, record) ==
    [w EXCEPT !.pomodoroRecords = <<record>>]

recordPomodoro(w, record) ==
    [w EXCEPT !.pomodoroRecords = Append(w.pomodoroRecords, record)]
\* globalState.get(POMODORO_RECORDS_KEY, []): a key that is not stored reads
\* as the empty array, which is what <<>> stands for
getPomodoroRecords(w) == w.pomodoroRecords

\* clearAllData() that forgets the log only
clearAllData_logOnly(w) == [w EXCEPT !.pomodoroRecords = <<>>]

\* globalState.update(key, undefined) removes the key
clearAllData(w) == [w EXCEPT !.pomodoroRecords = <<>>, !.timerState = <<>>]

\* 24 * 60 * 60 * 1000
DayMs == 24 * 60 * 60 * 1000

\* new Date(y, m, d).getTime() of the day of t, on a clock without changes
\* of the offset: days begin at the multiples of DayMs
DayStart(t) == t - (t % DayMs)

\* date.setDate(date.getDate() - i)
DaysBefore(t, i) == t - i * DayMs

\* toLocaleDateString('zh-CN'): the calendar day, written as its number
toLocaleDateString(t) == ToString(DayStart(t) \div DayMs)

\* A text is the sequence of its pieces: the separators "," and "\n" are
\* pieces of their own and no other piece holds one.

\* toLocaleString('en-US'), "m/d/y, h:m:s": a comma after the day
toLocaleString_enUS(t) ==
    <<ToString(DayStart(t) \div DayMs), ",", " ", ToString(t % DayMs)>>

\* toLocaleString('zh-CN'), "y/m/d h:m:s": the calendar day and the time of
\* day, separated by a space
toLocaleString(t) ==
    <<ToString(DayStart(t) \div DayMs), " ", ToString(t % DayMs)>>

\* records.reduce((total, record) => total + record.duration, 0)
RECURSIVE TotalDuration(_)
TotalDuration(records) ==
    IF records = <<>>
    THEN 0
    ELSE Head(records).duration + TotalDuration(Tail(records))

\* records.filter(...) of getTodayData and getLast7DaysData, with the test
\* on completed left out
CompletedWithin_any(records, from, to) ==
    SelectSeq(records,
              LAMBDA record : record.startTime >= from /\ record.startTime < to)

\* records.filter(...) of getTodayData and getLast7DaysData
CompletedWithin(records, from, to) ==
    SelectSeq(records,
              LAMBDA record : /\ record.startTime >= from
                              /\ record.startTime < to
                              /\ record.completed)

getTodayData(w) ==
    LET records == getPomodoroRecords(w)
        todayStart == DayStart(w.now)
        todayEnd == todayStart + DayMs
        todayRecords == CompletedWithin(records, todayStart, todayEnd)
    IN  [completedPomodoros |-> Len(todayRecords),
         totalWorkTime |-> TotalDuration(todayRecords)]

\* the body of the loop of getLast7DaysData, for i down to 0
RECURSIVE Last7DaysFrom(_, _)
Last7DaysFrom(w, i) ==
    IF i < 0
    THEN <<>>
    ELSE LET records == getPomodoroRecords(w)
             date == DaysBefore(w.now, i)
             dateStart == DayStart(date)
             dateEnd == dateStart + DayMs
             dayRecords == CompletedWithin(records, dateStart, dateEnd)
         IN  <<[date |-> toLocaleDateString(date),
                completed |-> Len(dayRecords),
                workTime |-> TotalDuration(dayRecords)]>>
             \o Last7DaysFrom(w, i - 1)

getLast7DaysData(w) == Last7DaysFrom(w, 6)

\* the rows exportToCSV() adds for the records
RECURSIVE CsvRows(_)
CsvRows(records) ==
    IF records = <<>>
    THEN <<>>
    ELSE LET record == Head(records)
             startText == toLocaleString(record.startTime)
             endText == toLocaleString(record.endTime)
             status == IF record.completed THEN "done" ELSE "cancelled"
         IN  startText \o <<",">> \o endText
             \o <<",", ToString(record.duration), ",", status, "\n">>
             \o CsvRows(Tail(records))

\* the header and the two status words are written in English here
exportToCSV(w) ==
    <<"start", ",", "end", ",", "duration(min)", ",", "status", "\n">>
    \o CsvRows(getPomodoroRecords(w))

notifyWorkEnd(w) == [w EXCEPT !.notified = Append(w.notified, "workEnd")]

notifyBreakEnd(w) == [w EXCEPT !.notified = Append(w.notified, "breakEnd")]

saveState(w) ==
    IF w.state # IDLE
    THEN saveTimerState(w,
            [state |-> w.state, remainingTime |-> w.remainingTime,
             totalDuration |-> w.totalDuration,
             completedPomodoros |-> w.completedPomodoros,
             consecutivePomodoros |-> w.consecutivePomodoros,
             timestamp |-> w.now])
    ELSE w

updateStatusBar(w) == saveState(w)

stopTimer(w) ==
    IF w.intervalId
    THEN [w EXCEPT !.intervalId = FALSE, !.activeTimers = w.activeTimers - 1]
    ELSE w

startTimer(w) ==
    LET w1 == stopTimer(w)
    IN  [w1 EXCEPT !.intervalId = TRUE, !.activeTimers = w1.activeTimers + 1]

resetTimer(w) ==
    saveState([w EXCEPT !.state = IDLE, !.remainingTime = 0,
                        !.totalDuration = 0, !.startTime = Null,
                        !.pauseTime = Null, !.previousState = IDLE])

startBreak(w) ==
    LET w1 == stopTimer(w)
        cfg == getConfig(w.config)
        isLongBreak == w1.consecutivePomodoros >= cfg.longBreakInterval
        w2 == IF isLongBreak
              THEN [w1 EXCEPT !.totalDuration = Times60(cfg.longBreakDuration),
                              !.state = LONG_BREAK]
              ELSE [w1 EXCEPT !.totalDuration = Times60(cfg.shortBreakDuration),
                              !.state = SHORT_BREAK]
        w3 == [w2 EXCEPT !.remainingTime = w2.totalDuration,
                         !.startTime = w.now]
    IN  updateStatusBar(startTimer(w3))
\* handleTimerEnd() that follows a break by another break
handleTimerEnd_breakAgain(w) ==
    LET w1 == stopTimer(w)
        cfg == getConfig(w.config)
    IN  IF w1.state = WORKING
        THEN LET w2 == [w1 EXCEPT
                          !.completedPomodoros = w1.completedPomodoros + 1,
                          !.consecutivePomodoros = w1.consecutivePomodoros + 1]
                 w3 == recordPomodoro(w2,
                          [startTime |-> w2.startTime, endTime |-> w2.now,
                           duration |-> cfg.workDuration, completed |-> TRUE])
             IN  updateStatusBar(startBreak(notifyWorkEnd(w3)))
        ELSE IF w1.state = SHORT_BREAK \/ w1.state = LONG_BREAK
        THEN updateStatusBar(startBreak(notifyBreakEnd(w1)))
        ELSE updateStatusBar(w1)

handleTimerEnd(w) ==
    LET w1 == stopTimer(w)
        cfg == getConfig(w.config)
    IN  IF w1.state = WORKING
        THEN LET w2 == [w1 EXCEPT
                          !.completedPomodoros = w1.completedPomodoros + 1,
                          !.consecutivePomodoros = w1.consecutivePomodoros + 1]
                 w3 == recordPomodoro(w2,
                          [startTime |-> w2.startTime, endTime |-> w2.now,
                           duration |-> cfg.workDuration, completed |-> TRUE])
             IN  updateStatusBar(startBreak(notifyWorkEnd(w3)))
        ELSE IF w1.state = SHORT_BREAK \/ w1.state = LONG_BREAK
        THEN LET w2 == notifyBreakEnd(w1)
                 w3 == IF w2.state = LONG_BREAK
                       THEN [w2 EXCEPT !.consecutivePomodoros = 0]
                       ELSE w2
             IN  updateStatusBar(resetTimer(w3))
        ELSE updateStatusBar(w1)
\* the callback with the completion test written remainingTime < 0
timerCallback_late(w) ==
    LET w1 == [w EXCEPT !.remainingTime = w.remainingTime - 1]
    IN  IF w1.remainingTime < 0
        THEN handleTimerEnd(w1)
        ELSE updateStatusBar(w1)
\* the callback that counts down without the completion test
timerCallback_noEnd(w) ==
    updateStatusBar([w EXCEPT !.remainingTime = w.remainingTime - 1])
\* the callback that counts down without updateStatusBar()
timerCallback_noSave(w) ==
    LET w1 == [w EXCEPT !.remainingTime = w.remainingTime - 1]
    IN  IF w1.remainingTime <= 0
        THEN handleTimerEnd(w1)
        ELSE w1

\* the callback startTimer schedules
timerCallback(w) ==
    LET w1 == [w EXCEPT !.remainingTime = w.remainingTime - 1]
    IN  IF w1.remainingTime <= 0
        THEN handleTimerEnd(w1)
        ELSE updateStatusBar(w1)
\* startWork() without the guard on Working
startWork_restart(w) ==
    LET w1 == stopTimer(w)
        cfg == getConfig(w.config)
        w2 == [w1 EXCEPT !.totalDuration = Times60(cfg.workDuration)]
        w3 == [w2 EXCEPT !.remainingTime = w2.totalDuration,
                         !.state = WORKING,
                         !.startTime = w.now]
    IN  updateStatusBar(startTimer(w3))
\* startWork() that is rejected in every state but Idle
startWork_idleOnly(w) ==
    IF w.state # IDLE
    THEN w
    ELSE LET w1 == stopTimer(w)
             cfg == getConfig(w.config)
             w2 == [w1 EXCEPT !.totalDuration = Times60(cfg.workDuration)]
             w3 == [w2 EXCEPT !.remainingTime = w2.totalDuration,
                              !.state = WORKING,
                              !.startTime = w.now]
         IN  updateStatusBar(startTimer(w3))
startWork(w) ==
    IF w.state = WORKING
    THEN w
    ELSE LET w1 == stopTimer(w)
             cfg == getConfig(w.config)
             w2 == [w1 EXCEPT !.totalDuration = Times60(cfg.workDuration)]
             w3 == [w2 EXCEPT !.remainingTime = w2.totalDuration,
                              !.state = WORKING,
                              !.startTime = w.now]
         IN  updateStatusBar(startTimer(w3))
\* pause() that leaves the countdown scheduled
pause_noStop(w) ==
    IF w.state # WORKING /\ w.state # SHORT_BREAK /\ w.state # LONG_BREAK
    THEN w
    ELSE LET w2 == [w EXCEPT !.previousState = w.state,
                             !.pauseTime = w.now,
                             !.state = PAUSED]
         IN  updateStatusBar(w2)

pause(w) ==
    IF w.state # WORKING /\ w.state # SHORT_BREAK /\ w.state # LONG_BREAK
    THEN w
    ELSE LET w1 == stopTimer(w)
             w2 == [w1 EXCEPT !.previousState = w1.state,
                              !.pauseTime = w.now,
                              !.state = PAUSED]
         IN  updateStatusBar(w2)

\* !this.pauseTime: null and 0 are falsy
Falsy(x) == x = Null \/ x = 0
\* resume() that starts the countdown over from totalDuration
resume_fromStart(w) ==
    IF w.state # PAUSED
    THEN w
    ELSE IF Falsy(w.pauseTime)
    THEN w
    ELSE LET w1 == [w EXCEPT !.state = w.previousState,
                             !.remainingTime = w.totalDuration,
                             !.pauseTime = Null]
         IN  updateStatusBar(startTimer(w1))

resume(w) ==
    IF w.state # PAUSED
    THEN w
    ELSE IF Falsy(w.pauseTime)
    THEN w
    ELSE LET w1 == [w EXCEPT !.state = w.previousState,
                             !.pauseTime = Null]
         IN  updateStatusBar(startTimer(w1))
\* cancel() without the reset of the consecutive count
cancel_keepStreak(w) ==
    IF w.state = IDLE
    THEN w
    ELSE updateStatusBar(resetTimer(stopTimer(w)))

cancel(w) ==
    IF w.state = IDLE
    THEN w
    ELSE LET w1 == stopTimer(w)
             w2 == IF w1.state = WORKING
                   THEN [w1 EXCEPT !.consecutivePomodoros = 0]
                   ELSE w1
         IN  updateStatusBar(resetTimer(w2))
\* the registered command 'pomodoro-clock.toggle'
toggleCommand(w) ==
    LET currentState == w.state
    IN  IF currentState = IDLE
        THEN startWork(w)
        ELSE IF currentState = PAUSED
        THEN resume(w)
        ELSE IF currentState = WORKING \/ currentState = SHORT_BREAK
                \/ currentState = LONG_BREAK
        THEN pause(w)
        ELSE w

\* the registered command 'pomodoro-clock.cancel'
cancelCommand(w) == cancel(w)

\* the panel's handler with a toggleTimer message that pauses unless Idle
onDidReceiveMessage_noResume(w, type) ==
    IF type = "toggleTimer"
    THEN IF w.state = IDLE THEN startWork(w) ELSE pause(w)
    ELSE IF type = "cancelTimer"
    THEN cancel(w)
    ELSE w

\* PomodoroPanel: the handler of the messages the webview posts
onDidReceiveMessage(w, type) ==
    IF type = "toggleTimer"
    THEN LET currentState == w.state
         IN  IF currentState = IDLE
             THEN startWork(w)
             ELSE IF currentState = PAUSED
             THEN resume(w)
             ELSE IF currentState = WORKING \/ currentState = SHORT_BREAK
                     \/ currentState = LONG_BREAK
             THEN pause(w)
             ELSE w
    ELSE IF type = "cancelTimer"
    THEN cancel(w)
    ELSE w

\* the downtime rounded up instead of down
Elapsed_ceil(t, timestamp) == (t - timestamp + 999) \div 1000

\* Math.floor((Date.now() - savedState.timestamp) / 1000)
Elapsed(t, timestamp) == (t - timestamp) \div 1000
\* restoreState() that resets an elapsed countdown instead of completing it
restoreState_noCompletion(w) ==
    LET saved == getTimerState(w)
    IN  IF saved # <<>>
        THEN LET savedState == saved[1]
                 w1 == [w EXCEPT
                          !.state = savedState.state,
                          !.remainingTime = savedState.remainingTime,
                          !.totalDuration = savedState.totalDuration,
                          !.completedPomodoros = savedState.completedPomodoros,
                          !.consecutivePomodoros = savedState.consecutivePomodoros]
                 w2 == IF w1.state = WORKING \/ w1.state = SHORT_BREAK
                          \/ w1.state = LONG_BREAK
                       THEN LET elapsed == Elapsed(w.now, savedState.timestamp)
                                w3 == [w1 EXCEPT !.remainingTime =
                                         Max(0, w1.remainingTime - elapsed)]
                            IN  IF w3.remainingTime > 0
                                THEN startTimer(w3)
                                ELSE resetTimer(stopTimer(w3))
                       ELSE w1
             IN  updateStatusBar(w2)
        ELSE w
\* restoreState() that keeps completing while nothing remains
restoreState_cascade(w) ==
    LET saved == getTimerState(w)
    IN  IF saved # <<>>
        THEN LET savedState == saved[1]
                 w1 == [w EXCEPT
                          !.state = savedState.state,
                          !.remainingTime = savedState.remainingTime,
                          !.totalDuration = savedState.totalDuration,
                          !.completedPomodoros = savedState.completedPomodoros,
                          !.consecutivePomodoros = savedState.consecutivePomodoros]
                 w2 == IF w1.state = WORKING \/ w1.state = SHORT_BREAK
                          \/ w1.state = LONG_BREAK
                       THEN LET elapsed == Elapsed(w.now, savedState.timestamp)
                                w3 == [w1 EXCEPT !.remainingTime =
                                         Max(0, w1.remainingTime - elapsed)]
                            IN  IF w3.remainingTime > 0
                                THEN startTimer(w3)
                                ELSE handleTimerEnd(handleTimerEnd(w3))
                       ELSE w1
             IN  updateStatusBar(w2)
        ELSE w
\* restoreState() that sets the downtime left over against the break it
\* starts, and finishes the break as well when nothing of it remains
restoreState_resolveBreak(w) ==
    LET saved == getTimerState(w)
    IN  IF saved # <<>>
        THEN LET savedState == saved[1]
                 w1 == [w EXCEPT
                          !.state = savedState.state,
                          !.remainingTime = savedState.remainingTime,
                          !.totalDuration = savedState.totalDuration,
                          !.completedPomodoros = savedState.completedPomodoros,
                          !.consecutivePomodoros = savedState.consecutivePomodoros]
                 w2 == IF w1.state = WORKING \/ w1.state = SHORT_BREAK
                          \/ w1.state = LONG_BREAK
                       THEN LET elapsed == Elapsed(w.now, savedState.timestamp)
                                left == elapsed - w1.remainingTime
                                w3 == [w1 EXCEPT !.remainingTime =
                                         Max(0, w1.remainingTime - elapsed)]
                                w4 == handleTimerEnd(w3)
                            IN  IF w3.remainingTime > 0
                                THEN startTimer(w3)
                                ELSE IF w4.state # IDLE
                                        /\ left >= w4.remainingTime
                                THEN resetTimer(stopTimer(w4))
                                ELSE w4
                       ELSE w1
             IN  updateStatusBar(w2)
        ELSE w
\* restoreState() that leaves completedPomodoros of the new process alone
restoreState_freshCount(w) ==
    LET saved == getTimerState(w)
    IN  IF saved # <<>>
        THEN LET savedState == saved[1]
                 w1 == [w EXCEPT
                          !.state = savedState.state,
                          !.remainingTime = savedState.remainingTime,
                          !.totalDuration = savedState.totalDuration,
                          !.consecutivePomodoros = savedState.consecutivePomodoros]
                 w2 == IF w1.state = WORKING \/ w1.state = SHORT_BREAK
                          \/ w1.state = LONG_BREAK
                       THEN LET elapsed == Elapsed(w.now, savedState.timestamp)
                                w3 == [w1 EXCEPT !.remainingTime =
                                         Max(0, w1.remainingTime - elapsed)]
                            IN  IF w3.remainingTime > 0
                                THEN startTimer(w3)
                                ELSE handleTimerEnd(w3)
                       ELSE w1
             IN  updateStatusBar(w2)
        ELSE w

restoreState(w) ==
    LET saved == getTimerState(w)
    IN  IF saved # <<>>
        THEN LET savedState == saved[1]
                 w1 == [w EXCEPT
                          !.state = savedState.state,
                          !.remainingTime = savedState.remainingTime,
                          !.totalDuration = savedState.totalDuration,
                          !.completedPomodoros = savedState.completedPomodoros,
                          !.consecutivePomodoros = savedState.consecutivePomodoros]
                 w2 == IF w1.state = WORKING \/ w1.state = SHORT_BREAK
                          \/ w1.state = LONG_BREAK
                       THEN LET elapsed == Elapsed(w.now, savedState.timestamp)
                                w3 == [w1 EXCEPT !.remainingTime =
                                         Max(0, w1.remainingTime - elapsed)]
                            IN  IF w3.remainingTime > 0
                                THEN startTimer(w3)
                                ELSE handleTimerEnd(w3)
                       ELSE w1
             IN  updateStatusBar(w2)
        ELSE w

dispose(w) == saveState(stopTimer(w))

\* activate(context): construct, updateStatusBar(), restoreState()
activate(w) == restoreState(updateStatusBar(Constructed(w)))

----------------------------------------------------------------------------
(* Bookkeeping of the work interval started last: the duration it was      *)
(* configured with, the callbacks it has received and the length of the    *)
(* log when it started.  Any step other than a countdown callback ends it. *)

NoRun == [active |-> FALSE, d |-> 0, ticks |-> 0, len0 |-> 0]

RunAfter(w) ==
    IF w.op = "startWork" /\ state = IDLE
    THEN [active |-> TRUE, d |-> getConfig(config).workDuration,
          ticks |-> 0, len0 |-> Len(pomodoroRecords)]
    ELSE IF w.op = "tick" /\ run.active /\ run.ticks < Times60(run.d)
    THEN [run EXCEPT !.ticks = run.ticks + 1]
    ELSE NoRun

Commit(w) ==
    /\ state' = w.state
    /\ remainingTime' = w.remainingTime
    /\ totalDuration' = w.totalDuration
    /\ intervalId' = w.intervalId
    /\ activeTimers' = w.activeTimers
    /\ completedPomodoros' = w.completedPomodoros
    /\ consecutivePomodoros' = w.consecutivePomodoros
    /\ startTime' = w.startTime
    /\ pauseTime' = w.pauseTime
    /\ previousState' = w.previousState
    /\ timerState' = w.timerState
    /\ pomodoroRecords' = w.pomodoroRecords
    /\ now' = w.now
    /\ notified' = w.notified
    /\ lastOp' = w.op
    /\ run' = RunAfter(w)
    /\ restored' = IF w.op \in {"activate", "restoreState"}
                   THEN timerState ELSE <<>>
    /\ afterLongBreak' = IF Len(w.pomodoroRecords) > Len(pomodoroRecords)
                         THEN w.state = LONG_BREAK
                         ELSE afterLongBreak \/ w.state = LONG_BREAK
    /\ config' = w.config
    /\ attended' = attended
    /\ stoppedIdle' = (w.op = "dispose" /\ state = IDLE)

\* a step of a handler, while the log is within cap
Step(w, cap) ==
    /\ Len(w.pomodoroRecords) <= cap
    /\ Commit(w)
    /\ report' = <<>>

----------------------------------------------------------------------------
(* Actions *)

Init ==
    /\ alive = TRUE
    /\ state = IDLE
    /\ remainingTime = 0
    /\ totalDuration = 0
    /\ intervalId = FALSE
    /\ activeTimers = 0
    /\ completedPomodoros = 0
    /\ consecutivePomodoros = 0
    /\ startTime = Null
    /\ pauseTime = Null
    /\ previousState = IDLE
    /\ timerState = <<>>
    /\ pomodoroRecords = <<>>
    /\ config \in Configs
    /\ now = StepMs
    /\ notified = <<>>
    /\ lastOp = "activate"
    /\ run = NoRun
    /\ restored = <<>>
    /\ afterLongBreak = FALSE
    /\ attended = TRUE
    /\ report = <<>>
    /\ stoppedIdle = FALSE

StartWork ==
    /\ alive
    /\ Step(startWork(Self(now, "startWork")), MaxRecords)
    /\ UNCHANGED alive

Pause ==
    /\ alive
    /\ Step(pause(Self(now, "pause")), MaxRecords)
    /\ UNCHANGED alive

Resume ==
    /\ alive
    /\ Step(resume(Self(now, "resume")), MaxRecords)
    /\ UNCHANGED alive

Cancel ==
    /\ alive
    /\ Step(cancel(Self(now, "cancel")), MaxRecords)
    /\ UNCHANGED alive

\* one second passes and the countdown callback runs
Tick ==
    /\ alive
    /\ activeTimers > 0
    /\ now + TickMs <= MaxNow
    /\ Step(timerCallback(Self(now + TickMs, "tick")), MaxRecords)
    /\ UNCHANGED alive

\* the window closes: the subscriptions are disposed and the process ends
Dispose ==
    /\ alive
    /\ Step(Constructed(dispose(Self(now, "dispose"))), MaxRecords)
    /\ alive' = FALSE

\* the process starts
Activate ==
    /\ ~alive
    /\ Step(activate(Self(now, "activate")), MaxRecords)
    /\ alive' = TRUE

\* restoreState() is called once more, right after activation
RestoreAgain ==
    /\ alive
    /\ lastOp = "activate"
    /\ Step(restoreState(Self(now, "restoreState")), MaxRecords)
    /\ UNCHANGED alive

\* time passes while the process is down
AdvanceTime ==
    /\ ~alive
    /\ now + StepMs <= MaxNow
    /\ now' = now + StepMs
    /\ UNCHANGED <<alive, state, remainingTime, totalDuration, intervalId,
                   activeTimers, attended, report, stoppedIdle,
                   completedPomodoros, consecutivePomodoros, startTime,
                   pauseTime, previousState, timerState, pomodoroRecords,
                   config, notified, lastOp, run, restored, afterLongBreak>>

\* the user edits the settings
ChangeConfig ==
    /\ alive
    /\ \E c \in Configs \ {config} :
          Step([Self(now, "config") EXCEPT !.config = c], MaxRecords)
    /\ UNCHANGED alive

Next ==
    \/ StartWork
    \/ Pause
    \/ Resume
    \/ Cancel
    \/ Tick
    \/ Dispose
    \/ Activate
    \/ RestoreAgain
    \/ AdvanceTime
    \/ ChangeConfig

Spec == Init /\ [][Next]_vars

----------------------------------------------------------------------------
(* One session of the running extension, without restart and with the      *)
(* settings left alone: one second of work, one of short break, two of     *)
(* long break, a long break every 4 work intervals.                        *)

SessionConfig ==
    [workDuration |-> 1, shortBreakDuration |-> 1,
     longBreakDuration |-> 2, longBreakInterval |-> 4]

InitSession ==
    /\ alive = TRUE
    /\ state = IDLE
    /\ remainingTime = 0
    /\ totalDuration = 0
    /\ intervalId = FALSE
    /\ activeTimers = 0
    /\ completedPomodoros = 0
    /\ consecutivePomodoros = 0
    /\ startTime = Null
    /\ pauseTime = Null
    /\ previousState = IDLE
    /\ timerState = <<>>
    /\ pomodoroRecords = <<>>
    /\ config = SessionConfig
    /\ now = StepMs
    /\ notified = <<>>
    /\ lastOp = "activate"
    /\ run = NoRun
    /\ restored = <<>>
    /\ afterLongBreak = FALSE
    /\ attended = TRUE
    /\ report = <<>>
    /\ stoppedIdle = FALSE

SessionStartWork ==
    /\ attended
    /\ Step(startWork(Self(now, "startWork")), MaxSessionRecords)
    /\ UNCHANGED alive

SessionPause ==
    /\ attended
    /\ Step(pause(Self(now, "pause")), MaxSessionRecords)
    /\ UNCHANGED alive

SessionResume ==
    /\ attended
    /\ Step(resume(Self(now, "resume")), MaxSessionRecords)
    /\ UNCHANGED alive

SessionCancel ==
    /\ attended
    /\ Step(cancel(Self(now, "cancel")), MaxSessionRecords)
    /\ UNCHANGED alive

\* the user runs the toggle command
SessionToggle ==
    /\ attended
    /\ Step(toggleCommand(Self(now, "toggle")), MaxSessionRecords)
    /\ UNCHANGED alive

\* the webview posts a message to the panel
SessionPanelMessage ==
    /\ attended
    /\ \E type \in {"toggleTimer", "cancelTimer", "refresh"} :
          Step(onDidReceiveMessage(Self(now, type), type), MaxSessionRecords)
    /\ UNCHANGED alive

SessionTick ==
    /\ attended
    /\ activeTimers > 0
    /\ now + TickMs <= MaxSessionNow
    /\ Step(timerCallback(Self(now + TickMs, "tick")), MaxSessionRecords)
    /\ UNCHANGED alive

NextSession ==
    \/ SessionStartWork
    \/ SessionPause
    \/ SessionResume
    \/ SessionCancel
    \/ SessionToggle
    \/ SessionPanelMessage
    \/ SessionTick

SpecSession == InitSession /\ [][NextSession]_vars

----------------------------------------------------------------------------
(* A session the user walks away from: from then on no command is invoked  *)
(* and the countdown callbacks are the only steps.  setInterval keeps      *)
(* delivering the callback while a countdown is scheduled, which is the    *)
(* weak fairness of the callback's delivery.  The clock of the unattended   *)
(* part stops MaxTailSteps steps of StepMs after the session's.             *)

\* the user stops invoking commands
Leave ==
    /\ attended
    /\ attended' = FALSE
    /\ UNCHANGED <<alive, state, remainingTime, totalDuration, intervalId,
                   activeTimers, completedPomodoros, consecutivePomodoros,
                   startTime, pauseTime, previousState, timerState,
                   pomodoroRecords, config, now, notified, lastOp, run,
                   restored, afterLongBreak, report, stoppedIdle>>

\* one second passes and the countdown callback runs, nobody attending
UnattendedTick ==
    /\ ~attended
    /\ activeTimers > 0
    /\ now + TickMs <= MaxSessionNow + MaxTailSteps * StepMs
    /\ Step(timerCallback(Self(now + TickMs, "tick")), MaxSessionRecords + 1)
    /\ UNCHANGED alive

NextUnattended ==
    \/ NextSession
    \/ Leave
    \/ UnattendedTick

\* a countdown callback is delivered: the steps of NextUnattended that
\* satisfy it are the UnattendedTick steps, and it is enabled where
\* UnattendedTick is
CallbackDelivered ==
    /\ ~attended
    /\ activeTimers > 0
    /\ now + TickMs <= MaxSessionNow + MaxTailSteps * StepMs
    /\ now' = now + TickMs

SpecUnattended ==
    InitSession /\ [][NextUnattended]_vars /\ WF_now(CallbackDelivered)

----------------------------------------------------------------------------
(* One session with settings of 0: a work duration of 0 minutes, or break  *)
(* durations and an interval of 0.                                         *)

ZeroConfigs ==
    { [workDuration |-> 0, shortBreakDuration |-> 1,
       longBreakDuration |-> 2, longBreakInterval |-> 1],
      [workDuration |-> 1, shortBreakDuration |-> 0,
       longBreakDuration |-> 0, longBreakInterval |-> 0] }

InitDefaults ==
    /\ alive = TRUE
    /\ state = IDLE
    /\ remainingTime = 0
    /\ totalDuration = 0
    /\ intervalId = FALSE
    /\ activeTimers = 0
    /\ completedPomodoros = 0
    /\ consecutivePomodoros = 0
    /\ startTime = Null
    /\ pauseTime = Null
    /\ previousState = IDLE
    /\ timerState = <<>>
    /\ pomodoroRecords = <<>>
    /\ config \in ZeroConfigs
    /\ now = StepMs
    /\ notified = <<>>
    /\ lastOp = "activate"
    /\ run = NoRun
    /\ restored = <<>>
    /\ afterLongBreak = FALSE
    /\ attended = TRUE
    /\ report = <<>>
    /\ stoppedIdle = FALSE

SpecDefaults == InitDefaults /\ [][NextSession]_vars

----------------------------------------------------------------------------
(* The DataManager on its own: records and a snapshot are stored, the      *)
(* store is cleared and the three reports are asked for, on day 8 of the   *)
(* clock.  The records start at the first and the last millisecond of the  *)
(* days at the edges of the 7-day window and of today.                     *)

DataNows == {8 * DayMs, 9 * DayMs - 1}

DataTimes ==
    {2 * DayMs - 1, 2 * DayMs, 8 * DayMs - 1, 8 * DayMs, 9 * DayMs - 1,
     9 * DayMs}

DataRecords ==
    {[startTime |-> t, endTime |-> t + TickMs, duration |-> d,
      completed |-> c] : t \in DataTimes, d \in {1, 2}, c \in BOOLEAN}

InitData ==
    /\ alive = TRUE
    /\ state = IDLE
    /\ remainingTime = 0
    /\ totalDuration = 0
    /\ intervalId = FALSE
    /\ activeTimers = 0
    /\ completedPomodoros = 0
    /\ consecutivePomodoros = 0
    /\ startTime = Null
    /\ pauseTime = Null
    /\ previousState = IDLE
    /\ timerState = <<>>
    /\ pomodoroRecords = <<>>
    /\ config = SessionConfig
    /\ now \in DataNows
    /\ notified = <<>>
    /\ lastOp = "activate"
    /\ run = NoRun
    /\ restored = <<>>
    /\ afterLongBreak = FALSE
    /\ attended = TRUE
    /\ report = <<>>
    /\ stoppedIdle = FALSE

\* a step of the DataManager that returns result
DataStep(w, result) ==
    /\ Commit(w)
    /\ report' = result
    /\ UNCHANGED alive

DataRecordPomodoro ==
    /\ Len(pomodoroRecords) < MaxDataRecords
    /\ \E record \in DataRecords :
          DataStep(recordPomodoro(Self(now, "recordPomodoro"), record), <<>>)

DataSaveTimerState ==
    /\ timerState = <<>>
    /\ DataStep(saveTimerState(Self(now, "saveTimerState"),
                   [state |-> PAUSED, remainingTime |-> 1,
                    totalDuration |-> 1, completedPomodoros |-> 0,
                    consecutivePomodoros |-> 0, timestamp |-> now]), <<>>)

DataClearAll ==
    DataStep(clearAllData(Self(now, "clearAllData")), <<>>)

DataTodayData ==
    LET w == Self(now, "getTodayData")
    IN  DataStep(w, getTodayData(w))

DataLast7Days ==
    LET w == Self(now, "getLast7DaysData")
    IN  DataStep(w, getLast7DaysData(w))

DataExport ==
    LET w == Self(now, "exportToCSV")
    IN  DataStep(w, exportToCSV(w))

NextData ==
    \/ DataRecordPomodoro
    \/ DataSaveTimerState
    \/ DataClearAll
    \/ DataTodayData
    \/ DataLast7Days
    \/ DataExport

SpecData == InitData /\ [][NextData]_vars

----------------------------------------------------------------------------
(* Shorthands for the properties *)

Breaks == {SHORT_BREAK, LONG_BREAK}

\* the snapshot restoreState() is about to read
Saved == timerState[1]

\* the downtime restoreState() computes for the stored snapshot
SavedElapsed == Elapsed(now, Saved.timestamp)

\* the step runs restoreState() at process start
IsActivate == ~alive /\ lastOp' = "activate"

\* the break startBreak() chooses after the stored work interval completes
BreakAfter(s) ==
    IF s.consecutivePomodoros + 1 >= getConfig(config).longBreakInterval
    THEN LONG_BREAK ELSE SHORT_BREAK

BreakSeconds(b) ==
    IF b = LONG_BREAK THEN Times60(getConfig(config).longBreakDuration)
    ELSE Times60(getConfig(config).shortBreakDuration)

Last(q) == q[Len(q)]

----------------------------------------------------------------------------
(* Properties *)

\* C1: a work interval started from Idle with a configured duration d > 0
\* stays Working with no record appended while it has received fewer than
\* 60*d countdown callbacks, and after exactly 60*d of them, with no other
\* step in between, the machine is in a break and exactly one record has been
\* appended, with completed = TRUE and duration = d.
C1_WorkRunCompletes ==
    run.active =>
        IF run.ticks < (60 * run.d) \div Unit
        THEN /\ state = WORKING
             /\ Len(pomodoroRecords) = run.len0
        ELSE /\ run.ticks = (60 * run.d) \div Unit
             /\ state \in Breaks
             /\ Len(pomodoroRecords) = run.len0 + 1
             /\ Last(pomodoroRecords).completed = TRUE
             /\ Last(pomodoroRecords).duration = run.d

C1_Witness ==
    /\ run.active
    /\ run.d = 2
    /\ run.ticks = 2
    /\ state = SHORT_BREAK
    /\ Len(pomodoroRecords) = 1

\* C2: when restoreState() at process start reads a Working snapshot whose
\* remaining time has fully elapsed (remaining - elapsed <= 0), it ends where
\* a live countdown reaching 0 from that snapshot ends: both counters are the
\* snapshot's plus one, exactly one completed record is appended, the break
\* is LongBreak iff the new consecutive count has reached longBreakInterval,
\* remaining is the full break duration and the countdown is running.
C2_RestoreCompletesWork ==
    [][(/\ IsActivate
        /\ timerState # <<>>
        /\ Saved.state = WORKING
        /\ Saved.remainingTime - SavedElapsed <= 0)
       => (/\ completedPomodoros' = Saved.completedPomodoros + 1
           /\ consecutivePomodoros' = Saved.consecutivePomodoros + 1
           /\ Len(pomodoroRecords') = Len(pomodoroRecords) + 1
           /\ SubSeq(pomodoroRecords', 1, Len(pomodoroRecords)) = pomodoroRecords
           /\ Last(pomodoroRecords').completed = TRUE
           /\ state' = BreakAfter(Saved)
           /\ totalDuration' = BreakSeconds(BreakAfter(Saved))
           /\ remainingTime' = BreakSeconds(BreakAfter(Saved))
           /\ intervalId' = TRUE
           /\ notified' = <<"workEnd">>)]_vars

C2_Witness ==
    /\ alive
    /\ lastOp = "activate"
    /\ restored # <<>>
    /\ restored[1].state = WORKING
    /\ Elapsed(now, restored[1].timestamp) > restored[1].remainingTime
    /\ notified = <<"workEnd">>
    /\ state = SHORT_BREAK
    /\ remainingTime = totalDuration
    /\ intervalId
    /\ completedPomodoros = 1
    /\ Len(pomodoroRecords) = 1

\* C3: when restoreState() at process start reads a Working, ShortBreak or
\* LongBreak snapshot with remaining r and a downtime of e whole seconds,
\* e < r, the machine is in the snapshot's state with remaining = r - e,
\* totalDuration and both counters are the snapshot's, the countdown is
\* running, the log is unchanged and no notification is sent.
C3_RestoreInPlace ==
    [][(/\ IsActivate
        /\ timerState # <<>>
        /\ Saved.state \in Running
        /\ (now - Saved.timestamp) \div 1000 < Saved.remainingTime)
       => (/\ state' = Saved.state
           /\ remainingTime' = Saved.remainingTime
                                 - ((now - Saved.timestamp) \div 1000)
           /\ totalDuration' = Saved.totalDuration
           /\ completedPomodoros' = Saved.completedPomodoros
           /\ consecutivePomodoros' = Saved.consecutivePomodoros
           /\ intervalId' = TRUE
           /\ pomodoroRecords' = pomodoroRecords
           /\ notified' = <<>>)]_vars

\* a long break resumed in place after a downtime of one and a half seconds
C3_Witness ==
    /\ alive
    /\ lastOp = "activate"
    /\ restored # <<>>
    /\ restored[1].state = LONG_BREAK
    /\ restored[1].remainingTime = 2
    /\ now - restored[1].timestamp = 3 * StepMs
    /\ state = LONG_BREAK
    /\ intervalId
    /\ remainingTime = 1
    /\ notified = <<>>

\* C4: after restoreState() has run on a Working, ShortBreak or LongBreak
\* snapshot whose remaining time had fully elapsed, a second restoreState()
\* with no new elapsed time and no step in between changes nothing and sends
\* no completion notification.
C4_SecondRestoreNoOp ==
    [][(/\ alive
        /\ lastOp = "activate"
        /\ restored # <<>>
        /\ restored[1].state \in Running
        /\ Elapsed(now, restored[1].timestamp) >= restored[1].remainingTime
        /\ lastOp' = "restoreState")
       => (/\ state' = state
           /\ remainingTime' = remainingTime
           /\ totalDuration' = totalDuration
           /\ completedPomodoros' = completedPomodoros
           /\ consecutivePomodoros' = consecutivePomodoros
           /\ pomodoroRecords' = pomodoroRecords
           /\ notified' = <<>>)]_vars

\* C5: restoreState() at process start appends at most one record and runs
\* the completion logic at most once; and when the snapshot is a ShortBreak
\* or LongBreak whose remaining time has fully elapsed, the machine goes to
\* Idle with remaining 0, no countdown, no record appended and no break
\* started.
C5_RestoreOneCompletion ==
    [][IsActivate
       => (/\ Len(pomodoroRecords') <= Len(pomodoroRecords) + 1
           /\ Len(notified') <= 1
           /\ (/\ timerState # <<>>
               /\ Saved.state \in Breaks
               /\ Saved.remainingTime - SavedElapsed <= 0)
              => (/\ state' = IDLE
                  /\ remainingTime' = 0
                  /\ intervalId' = FALSE
                  /\ pomodoroRecords' = pomodoroRecords
                  /\ notified' = <<"breakEnd">>))]_vars

\* a long break that elapsed during the downtime, finalized by restoreState()
C5_Witness ==
    /\ alive
    /\ lastOp = "activate"
    /\ notified = <<"breakEnd">>
    /\ state = IDLE
    /\ restored # <<>>
    /\ restored[1].state = LONG_BREAK
    /\ Elapsed(now, restored[1].timestamp) >= restored[1].remainingTime
    /\ ~intervalId

C7_ResumeLeavesPaused ==
    [][(alive /\ state = PAUSED /\ lastOp' = "resume")
       => (/\ state' \in Running
           /\ intervalId' = TRUE
           /\ remainingTime' = remainingTime)]_vars

\* C8: cancel() while Working leaves the log unchanged and completedPomodoros
\* unchanged, and leaves consecutivePomodoros = 0, state = Idle,
\* remaining = 0, totalDuration = 0 and no countdown scheduled.
C8_CancelWorking ==
    [][(alive /\ state = WORKING /\ lastOp' = "cancel")
       => (/\ pomodoroRecords' = pomodoroRecords
           /\ completedPomodoros' = completedPomodoros
           /\ consecutivePomodoros' = 0
           /\ state' = IDLE
           /\ remainingTime' = 0
           /\ totalDuration' = 0
           /\ intervalId' = FALSE)]_vars

\* cancel() has ended a work interval that began with a consecutive count of
\* one (the snapshot left in the store is the cancelled interval's)
C8_Witness ==
    /\ alive
    /\ lastOp = "cancel"
    /\ state = IDLE
    /\ timerState # <<>>
    /\ timerState[1].state = WORKING
    /\ timerState[1].consecutivePomodoros = 1
    /\ consecutivePomodoros = 0
    /\ completedPomodoros = 1
    /\ Len(pomodoroRecords) = 1

\* C9: pause() leaves remaining, totalDuration and the counters as they are;
\* resume() right after a pause(), with no time passed, returns to the state
\* that was paused with the same remaining, totalDuration and counters and a
\* running countdown; and remaining does not change while the machine stays
\* Paused.
C9_PauseResume ==
    /\ [][(alive /\ state \in Running /\ lastOp' = "pause")
          => (/\ state' = PAUSED
              /\ previousState' = state
              /\ intervalId' = FALSE
              /\ remainingTime' = remainingTime
              /\ totalDuration' = totalDuration
              /\ completedPomodoros' = completedPomodoros
              /\ consecutivePomodoros' = consecutivePomodoros)]_vars
    /\ [][(/\ alive /\ state = PAUSED /\ lastOp = "pause" /\ pauseTime = now
           /\ lastOp' = "resume")
          => (/\ state' = previousState
              /\ state' \in Running
              /\ intervalId' = TRUE
              /\ remainingTime' = remainingTime
              /\ totalDuration' = totalDuration
              /\ completedPomodoros' = completedPomodoros
              /\ consecutivePomodoros' = consecutivePomodoros)]_vars
    /\ [][(state = PAUSED /\ state' = PAUSED)
          => remainingTime' = remainingTime]_vars

\* a long break resumed with part of its time left
C9_Witness ==
    /\ alive
    /\ lastOp = "resume"
    /\ state = LONG_BREAK
    /\ remainingTime = 1
    /\ totalDuration = 2
    /\ intervalId
    /\ pauseTime = Null

\* C10: with longBreakInterval = 4, a completed work interval that brings
\* the consecutive count to 1, 2 or 3 starts a ShortBreak and the one that
\* brings it to 4 starts a LongBreak; and the first work interval completed
\* after a LongBreak was entered sets consecutivePomodoros to 1 and starts a
\* ShortBreak, however that long break ended.
C10_LongBreakEveryFourth ==
    [][(/\ getConfig(config).longBreakInterval = 4
        /\ state = WORKING
        /\ Len(pomodoroRecords') = Len(pomodoroRecords) + 1)
       => (/\ consecutivePomodoros' \in 1..4
           /\ state' = IF consecutivePomodoros' = 4
                       THEN LONG_BREAK ELSE SHORT_BREAK
           /\ afterLongBreak
                => (consecutivePomodoros' = 1 /\ state' = SHORT_BREAK))]_vars


\* C11: the count of consecutive work intervals is 0 in every state where
\* the machine is in LongBreak, from the step that enters LongBreak on.
C11_LongBreakResetsStreak ==
    state = LONG_BREAK => consecutivePomodoros = 0

\* C12: cancel() of a work interval, running or paused, leaves the count of
\* consecutive work intervals at 0.
C12_CancelResetsStreak ==
    [][(/\ alive
        /\ lastOp' = "cancel"
        /\ \/ state = WORKING
           \/ state = PAUSED /\ previousState = WORKING)
       => consecutivePomodoros' = 0]_vars


\* the step runs a handler in a state where its guard rejects the call
C13_InvalidTrigger ==
    \/ lastOp' = "pause" /\ state \in {IDLE, PAUSED}
    \/ lastOp' = "resume" /\ state # PAUSED
    \/ lastOp' = "cancel" /\ state = IDLE
    \/ lastOp' = "startWork" /\ state = WORKING

\* C13: an invalid trigger changes nothing: pause() in Idle or Paused,
\* resume() in a state other than Paused, cancel() in Idle and startWork()
\* in Working leave the state, the remaining and total seconds, the two
\* counters, the countdown, the stored snapshot and the log as they were.
C13_InvalidTriggerNoChange ==
    [][(alive /\ C13_InvalidTrigger)
       => UNCHANGED <<state, remainingTime, totalDuration,
                      completedPomodoros, consecutivePomodoros, intervalId,
                      activeTimers, timerState, pomodoroRecords>>]_vars

\* startWork() was called on a work interval that had counted down a second
C13_Witness ==
    /\ alive
    /\ lastOp = "startWork"
    /\ state = WORKING
    /\ remainingTime < totalDuration
    /\ activeTimers = 1
    /\ Saved.remainingTime = remainingTime


\* C14 as stated: startWork() in ShortBreak, LongBreak or Paused leaves the
\* state, the remaining and total seconds and the countdown unchanged, and
\* the machine enters Working only from Idle by startWork() or from Paused
\* with prior state Working by resume().
C14_StartWorkOnlyFromIdle ==
    [][alive =>
       /\ (lastOp' = "startWork" /\ state \in Breaks \cup {PAUSED})
          => UNCHANGED <<state, remainingTime, totalDuration, intervalId,
                         activeTimers>>
       /\ (state # WORKING /\ state' = WORKING)
          => \/ state = IDLE /\ lastOp' = "startWork"
             \/ /\ state = PAUSED /\ previousState = WORKING
                /\ lastOp' = "resume"]_vars

\* C14: startWork() is rejected only in Working: called in Idle, ShortBreak,
\* LongBreak or Paused it stops the countdown and starts a work interval of
\* the configured duration; the machine enters Working only by startWork(),
\* by resume() of a paused work interval or by restoreState() of a stored
\* Working snapshot.
C14_StartWorkRestarts ==
    [][/\ (alive /\ lastOp' = "startWork" /\ state # WORKING)
          => /\ state' = WORKING
             /\ totalDuration' = Times60(getConfig(config).workDuration)
             /\ remainingTime' = totalDuration'
             /\ startTime' = now
             /\ intervalId' = TRUE
             /\ activeTimers' = 1
       /\ (state # WORKING /\ state' = WORKING)
          => \/ lastOp' = "startWork"
             \/ /\ lastOp' = "resume"
                /\ state = PAUSED /\ previousState = WORKING
             \/ /\ lastOp' \in {"activate", "restoreState"}
                /\ timerState # <<>>
                /\ Saved.state = WORKING]_vars

\* startWork() has started a work interval over a paused one: pauseTime is
\* still set
C14_Witness ==
    /\ alive
    /\ lastOp = "startWork"
    /\ state = WORKING
    /\ pauseTime # Null
    /\ remainingTime = totalDuration
    /\ activeTimers = 1


\* C15: in every reachable state the remaining seconds are at least 0 and at
\* most the total duration of the interval.
C15_RemainingInRange ==
    0 <= remainingTime /\ remainingTime <= totalDuration

\* a countdown callback has brought the remaining seconds below the total,
\* and a restart has resumed a countdown with the downtime taken off
C15_Witness ==
    /\ alive
    /\ state \in Running
    /\ 0 < remainingTime
    /\ remainingTime < totalDuration
    /\ \/ lastOp = "tick"
       \/ /\ lastOp = "activate"
          /\ restored # <<>>
          /\ remainingTime < restored[1].remainingTime


\* C16: whenever the machine is in a state other than Idle, the snapshot
\* stored under timerState holds the live state, remaining and total
\* seconds and the two counters.
C16_SnapshotIsLive ==
    state # IDLE =>
        /\ timerState # <<>>
        /\ Saved.state = state
        /\ Saved.remainingTime = remainingTime
        /\ Saved.totalDuration = totalDuration
        /\ Saved.completedPomodoros = completedPomodoros
        /\ Saved.consecutivePomodoros = consecutivePomodoros

\* a countdown callback has taken a second off a work interval and the
\* snapshot has followed
C16_Witness ==
    /\ lastOp = "tick"
    /\ state = WORKING
    /\ remainingTime < totalDuration
    /\ timerState # <<>>
    /\ Saved.state = WORKING
    /\ Saved.remainingTime = remainingTime
    /\ Saved.timestamp = now


\* C17: at most one countdown is scheduled at any time, it is the one
\* intervalId refers to and, while the extension is active, it is scheduled
\* exactly when the state is Working, ShortBreak or LongBreak: after pause()
\* or cancel() no callback is left that could decrement or complete.
C17_CountdownIffRunning ==
    /\ activeTimers <= 1
    /\ intervalId <=> activeTimers = 1
    /\ alive => (activeTimers = 1 <=> state \in Running)
    /\ ~alive => activeTimers = 0

\* pause() has stopped the countdown of a break
C17_Witness ==
    /\ alive
    /\ lastOp = "pause"
    /\ state = PAUSED
    /\ previousState \in Breaks
    /\ pauseTime = now
    /\ activeTimers = 0
    /\ ~intervalId


\* C18: a duration set to 0 minutes completes on the first countdown
\* callback: with workDuration = 0 the callback after startWork() from Idle
\* appends the record and starts the break, and a break whose duration is
\* set to 0 ends in Idle on the callback after the one that started it.
C18_ZeroCompletesOnFirstTick ==
    [][lastOp' = "tick" =>
       /\ (/\ state = WORKING
           /\ config.workDuration = 0
           /\ run.active /\ run.ticks = 0)
          => /\ state' \in Breaks
             /\ Len(pomodoroRecords') = Len(pomodoroRecords) + 1
       /\ (/\ lastOp = "tick" /\ notified = <<"workEnd">>
           /\ \/ state = SHORT_BREAK /\ config.shortBreakDuration = 0
              \/ state = LONG_BREAK /\ config.longBreakDuration = 0)
          => state' = IDLE]_vars


\* what a handler leaves behind: the fields of the timer, the countdown,
\* the store and the notifications sent
Effect(w) ==
    <<w.state, w.remainingTime, w.totalDuration, w.intervalId,
      w.activeTimers, w.completedPomodoros, w.consecutivePomodoros,
      w.startTime, w.pauseTime, w.previousState, w.timerState,
      w.pomodoroRecords, w.notified>>

\* C19: toggle has the effect of startWork() in Idle, of resume() in Paused
\* and of pause() in Working, ShortBreak and LongBreak, and the panel
\* messages toggleTimer and cancelTimer have the effect of the toggle and
\* cancel commands, in every state.
C19_ToggleAndPanel ==
    [][LET w == Self(now, lastOp')
           after == <<state', remainingTime', totalDuration', intervalId',
                      activeTimers', completedPomodoros',
                      consecutivePomodoros', startTime', pauseTime',
                      previousState', timerState', pomodoroRecords',
                      notified'>>
       IN  /\ lastOp' = "toggle" =>
                after = Effect(CASE state = IDLE -> startWork(w)
                                 [] state = PAUSED -> resume(w)
                                 [] state \in Running -> pause(w))
           /\ lastOp' = "toggleTimer" => after = Effect(toggleCommand(w))
           /\ lastOp' = "cancelTimer" => after = Effect(cancelCommand(w))]_vars

\* a toggleTimer message has resumed a paused break
C19_Witness ==
    /\ lastOp = "toggleTimer"
    /\ state \in Breaks
    /\ previousState = state
    /\ pauseTime = Null
    /\ activeTimers = 1


\* C20: once no command is invoked any more and the countdown callbacks keep
\* being delivered, a machine in Working reaches a break and a machine in
\* ShortBreak or LongBreak reaches Idle; on the way Working is left only for
\* a break, a break only for Idle, and Idle is not left.
C20_CycleEndsIdle ==
    /\ (~attended /\ state = WORKING) ~> (state \in Breaks)
    /\ (~attended /\ state \in Breaks) ~> (state = IDLE)
    /\ [][~attended =>
            /\ state = WORKING => state' \in {WORKING} \cup Breaks
            /\ state \in Breaks => state' \in {state, IDLE}
            /\ state = IDLE => state' = IDLE]_vars

\* left alone in a work interval, the machine has gone through its break
\* and is Idle
C20_Witness ==
    /\ ~attended
    /\ state = IDLE
    /\ lastOp = "tick"
    /\ notified = <<"breakEnd">>
    /\ Len(pomodoroRecords) > 0
    /\ Last(pomodoroRecords).endTime > Saved.timestamp - 3 * TickMs
    /\ activeTimers = 0


C22_ClearAllEmptiesStore ==
    [][lastOp' = "clearAllData" =>
         LET after == [pomodoroRecords |-> pomodoroRecords',
                       timerState |-> timerState']
         IN  /\ getPomodoroRecords(after) = <<>>
             /\ getTimerState(after) = <<>>]_vars

\* clearAllData() has run and both stored values are gone
C22_Witness ==
    /\ lastOp = "clearAllData"
    /\ pomodoroRecords = <<>>
    /\ timerState = <<>>


\* the positions of the log whose record is completed and starts within the
\* 24 hours from dayStart
CompletedOn(dayStart) ==
    {j \in 1..Len(pomodoroRecords) :
        /\ pomodoroRecords[j].completed
        /\ pomodoroRecords[j].startTime >= dayStart
        /\ pomodoroRecords[j].startTime < dayStart + DayMs}

\* the sum of the durations of the records at the positions in S
RECURSIVE DurationOf(_)
DurationOf(S) ==
    IF S = {}
    THEN 0
    ELSE LET j == CHOOSE k \in S : TRUE
         IN  pomodoroRecords[j].duration + DurationOf(S \ {j})

\* C23: the 7-day report has exactly 7 entries, one per day from 6 days ago
\* to today in this order; the entry of a day counts the completed records
\* that start within the 24 hours from the day's start and sums their
\* durations, and holds zeros for a day without such a record.
C23_Last7Days ==
    lastOp = "getLast7DaysData" =>
        /\ Len(report) = 7
        /\ \A k \in 1..7 :
              LET dayStart == DayStart(now) - (7 - k) * DayMs
              IN  /\ report[k].date = ToString(dayStart \div DayMs)
                  /\ report[k].completed = Cardinality(CompletedOn(dayStart))
                  /\ report[k].workTime = DurationOf(CompletedOn(dayStart))

\* a report over a log with a completed record today, a record today that
\* is not completed, and days without records
C23_Witness ==
    /\ lastOp = "getLast7DaysData"
    /\ Len(pomodoroRecords) = 2
    /\ \E i, j \in 1..2 :
          /\ pomodoroRecords[i].completed
          /\ ~pomodoroRecords[j].completed
          /\ DayStart(pomodoroRecords[i].startTime) = DayStart(now)
          /\ DayStart(pomodoroRecords[j].startTime) = DayStart(now)
    /\ report[7].completed = 1
    /\ report[7].workTime = 2
    /\ report[6].completed = 0
    /\ report[6].workTime = 0


\* String.prototype.split: the texts between the occurrences of sep
RECURSIVE Split(_, _)
Split(text, sep) ==
    IF \E i \in 1..Len(text) : text[i] = sep
    THEN LET i == CHOOSE k \in 1..Len(text) :
                     text[k] = sep /\ \A j \in 1..(k - 1) : text[j] # sep
         IN  <<SubSeq(text, 1, i - 1)>>
             \o Split(SubSeq(text, i + 1, Len(text)), sep)
    ELSE <<text>>

\* C24 as stated: the export splits on newline into the header row and one
\* data row per record and nothing else, and every data row splits on comma
\* into four columns.
C24_ExportRowCount ==
    lastOp = "exportToCSV" =>
        LET rows == Split(report, "\n")
        IN  /\ Len(rows) = Len(getPomodoroRecords(Self(now, lastOp))) + 1
            /\ \A k \in 2..Len(rows) : Len(Split(rows[k], ",")) = 4

\* C24: the export ends with a newline, so it splits on newline into the
\* header row, one data row per record and one empty text after the last
\* newline; the header and every data row split on comma into four columns.
C24_ExportRowsAndTail ==
    lastOp = "exportToCSV" =>
        LET rows == Split(report, "\n")
            n == Len(getPomodoroRecords(Self(now, lastOp)))
        IN  /\ Len(rows) = n + 2
            /\ rows[n + 2] = <<>>
            /\ Split(rows[1], ",") =
                  <<(<<"start">>), (<<"end">>), (<<"duration(min)">>),
                    (<<"status">>)>>
            /\ \A k \in 2..(n + 1) :
                  LET columns == Split(rows[k], ",")
                  IN  /\ Len(columns) = 4
                      /\ columns[3] =
                            <<ToString(pomodoroRecords[k - 1].duration)>>
                      /\ columns[4] \in {(<<"done">>), (<<"cancelled">>)}

\* an export of a log of two records, one completed and one not
C24_Witness ==
    /\ lastOp = "exportToCSV"
    /\ Len(pomodoroRecords) = 2
    /\ pomodoroRecords[1].completed
    /\ ~pomodoroRecords[2].completed
    /\ Len(Split(report, "\n")) = 4


\* C25: when the process stopped with the machine in Idle, restoreState()
\* at the next start leaves the machine Idle with nothing remaining, starts
\* no countdown, appends no record and sends no notification.
C25_IdleStopStaysIdle ==
    [][(IsActivate /\ stoppedIdle)
       => /\ state' = IDLE
          /\ remainingTime' = 0
          /\ activeTimers' = 0
          /\ pomodoroRecords' = pomodoroRecords
          /\ notified' = <<>>]_vars


\* C26: every record appended to the log has a startTime that is set, is
\* the time at which startWork() began the work interval and is not after
\* its endTime, also when the interval completes after a restart.
C26_RecordStartTime ==
    [][Len(pomodoroRecords') > Len(pomodoroRecords)
       => LET record == Last(pomodoroRecords')
          IN  /\ record.startTime # Null
              /\ record.startTime <= record.endTime
              /\ (lastOp' = "tick" /\ startTime # Null)
                 => record.startTime = startTime]_vars


\* C27: while the extension is active, completedPomodoros is the number of
\* records in the log, and every record is completed.
C27_CountMatchesLog ==
    alive =>
        /\ completedPomodoros = Len(pomodoroRecords)
        /\ \A k \in 1..Len(pomodoroRecords) : pomodoroRecords[k].completed


\* the extension has restarted on a stored break that followed the first
\* completion, and the count is 1 again, as the log's length
C27_Witness ==
    /\ alive
    /\ lastOp = "activate"
    /\ restored # <<>>
    /\ restored[1].state \in Breaks
    /\ restored[1].completedPomodoros = 1
    /\ completedPomodoros = 1
    /\ Len(pomodoroRecords) = 1


\* C28: the duration written in a record is the length the work interval
\* was started with, totalDuration / 60 minutes, also when the settings
\* were edited between startWork() and the completion.
C28_RecordDuration ==
    [][Len(pomodoroRecords') > Len(pomodoroRecords)
       => LET total == IF lastOp' = "tick"
                       THEN totalDuration
                       ELSE Saved.totalDuration
          IN  Times60(Last(pomodoroRecords').duration) = total]_vars

====
